---- MODULE Spec2Model ----
(***************************************************************************)
(* Model of the VocabLoop cloud-sync endpoint (api/sync.js): the merge     *)
(* helpers mergeWordStates, mergeGlobal and mergeAll as operators, and the *)
(* request handler as a state machine over the sync_data table.            *)
(*                                                                         *)
(* JSON values are modelled as follows.                                    *)
(*  - An object is a function from its property names to their values; a   *)
(*    property that is missing is outside the DOMAIN.  A property whose     *)
(*    value is `undefined` is modelled as missing: the code reads the       *)
(*    properties of a DeckState, GlobalState or snapshot only as `o.p`,     *)
(*    and JSON.stringify drops such properties.                             *)
(*  - `undefined` as an argument (an absent side) is the value Undefined.   *)
(*    `null`, which JSON can carry, is the value Null.                       *)
(*  - An array is a sequence.                                               *)
(*  - lastStudyDate, a YYYY-MM-DD string compared lexically, is a natural:  *)
(*    0 is the empty string '' and n >= 1 is the n-th day, so >= on the     *)
(*    naturals is >= on the strings.                                        *)
(***************************************************************************)
EXTENDS Integers, Sequences, FiniteSets, TLC

VARIABLES
    call,     \* the last application of a merge helper (SpecMerge)
    users,    \* the usernames of the users table
    store,    \* the sync_data table: username -> row or Null
    clock,    \* Date.now() of the server
    db,       \* the database client: "up", "unprovisioned" or "flaky"
    devices,  \* the snapshots held by the devices of one principal (SpecTurns)
    limiter,  \* the rate limiter of the auth endpoint: its map _attempts, and as
              \* history the admissions and the last response (SpecLimiter)
    req,      \* the invocations of the handler: their inputs, position and locals,
              \* and as history the calls each has made (io) and its writes (wrote)
    version,  \* history: the number of writes made to each username's row
    hist      \* history: what the writes to each username's row were

(* ------------------------------------------------------------------ *)
(* Bounds of the model                                                 *)
(* ------------------------------------------------------------------ *)
MaxNext   == 2   \* WordRecord.next ranges over 0..MaxNext (or is missing)
MaxCount  == 2   \* points, streak, dailyStreak, totalReviewed range over 0..MaxCount
MaxDate   == 2   \* lastStudyDate ranges over 0..MaxDate (0 is '')
MaxAch    == 2   \* achievements arrays have at most MaxAch entries
MaxShort  == 2   \* explicit reading histories have at most MaxShort entries
MaxRun    == 27  \* long reading histories are runs of MaxRun or 2*MaxRun numbers

Words     == {"cat", "dog"}
Opaque    == {"a", "b"}          \* values of the opaque scheduling field
DeckIds   == {"d1", "d2"}
AchIds    == {"x", "y", "z"}

(* ------------------------------------------------------------------ *)
(* JavaScript values                                                   *)
(* ------------------------------------------------------------------ *)
Undefined == [undefined |-> TRUE]
Null      == [null |-> TRUE]

\* `!x` for an argument x that is an object, undefined or null
Absent(x) == x = Undefined \/ x = Null
EmptyObj  == <<>>

Has(o, p) == p \in DOMAIN o

\* Object.keys(o)
Keys(o) == DOMAIN o

\* `o.p || 0` for a numeric property p
NumOr0(o, p) == IF Has(o, p) THEN o[p] ELSE 0

\* `o.p || {}` for an object-valued property p
ObjOrEmpty(o, p) == IF Has(o, p) THEN o[p] ELSE EmptyObj

\* `o.p || []` for an array-valued property p
ArrOrEmpty(o, p) == IF Has(o, p) THEN o[p] ELSE <<>>

Max(a, b) == IF a >= b THEN a ELSE b

\* { p: v } when v is defined: the object with the one property p
Prop(p, v) == [x \in {p} |-> v]

\* the objects that have property p with a value of S, or lack it
Opt(p, S) == {EmptyObj} \cup {Prop(p, v) : v \in S}

\* all objects whose keys are among K and whose values are in V
PartialFns(K, V) == UNION {[D -> V] : D \in SUBSET K}

\* all sequences over S of length at most n
SeqsUpTo(S, n) == UNION {[1..k -> S] : k \in 0..n}

(* ------------------------------------------------------------------ *)
(* mergeWordStates  (src/api/sync.js 19-42)                            *)
(* ------------------------------------------------------------------ *)

\* a tie-break slip: > for >=, so that equal next values pick the cloud's record
PickRecord_TieToCloud(l, c) == IF NumOr0(l, "next") > NumOr0(c, "next") THEN l ELSE c

\* line 33: (l.next || 0) >= (c.next || 0) ? l : c
PickRecord(l, c) == IF NumOr0(l, "next") >= NumOr0(c, "next") THEN l ELSE c

\* a slip in line 27: only the local side's words are walked
MergeStateMaps_LocalWordsOnly(localState, cloudState) ==
    [word \in Keys(localState) |->
        IF ~Has(cloudState, word) THEN localState[word]
        ELSE PickRecord(localState[word], cloudState[word])]

\* lines 27-34: the merged state map
MergeStateMaps(localState, cloudState) ==
    LET allWords == Keys(localState) \cup Keys(cloudState)
    IN  [word \in allWords |->
            IF ~Has(localState, word) THEN cloudState[word]
            ELSE IF ~Has(cloudState, word) THEN localState[word]
            ELSE PickRecord(localState[word], cloudState[word])]

\* line 40 written with ||: a local false gives way to the cloud's value
MergeAutoPlay_Truthy(local, cloud) ==
    IF Has(local, "autoPlay") /\ local.autoPlay THEN Prop("autoPlay", local.autoPlay)
    ELSE IF Has(cloud, "autoPlay") THEN Prop("autoPlay", cloud.autoPlay)
    ELSE EmptyObj

\* line 40: autoPlay: local.autoPlay !== undefined ? local.autoPlay : cloud.autoPlay
MergeAutoPlay(local, cloud) ==
    IF Has(local, "autoPlay") THEN Prop("autoPlay", local.autoPlay)
    ELSE IF Has(cloud, "autoPlay") THEN Prop("autoPlay", cloud.autoPlay)
    ELSE EmptyObj

\* a slip in line 38: points taken from the local side instead of the maximum
mergeWordStates_LocalPoints(local, cloud) ==
    IF Absent(local) THEN (IF Absent(cloud) THEN EmptyObj ELSE cloud)
    ELSE IF Absent(cloud) THEN local
    ELSE [state  |-> MergeStateMaps(ObjOrEmpty(local, "state"), ObjOrEmpty(cloud, "state")),
          points |-> NumOr0(local, "points"),
          streak |-> Max(NumOr0(local, "streak"), NumOr0(cloud, "streak"))]
         @@ MergeAutoPlay(local, cloud)

mergeWordStates(local, cloud) ==
    IF Absent(local) THEN (IF Absent(cloud) THEN EmptyObj ELSE cloud)
    ELSE IF Absent(cloud) THEN local
    ELSE [state  |-> MergeStateMaps(ObjOrEmpty(local, "state"), ObjOrEmpty(cloud, "state")),
          points |-> Max(NumOr0(local, "points"), NumOr0(cloud, "points")),
          streak |-> Max(NumOr0(local, "streak"), NumOr0(cloud, "streak"))]
         @@ MergeAutoPlay(local, cloud)

(* ------------------------------------------------------------------ *)
(* mergeGlobal  (src/api/sync.js 45-54)                                *)
(* ------------------------------------------------------------------ *)

\* [...new Set(arr)]: the entries of arr, each kept at its first occurrence
RECURSIVE DedupFrom(_, _)
DedupFrom(arr, acc) ==
    IF arr = <<>> THEN acc
    ELSE IF \E i \in 1..Len(acc) : acc[i] = Head(arr)
         THEN DedupFrom(Tail(arr), acc)
         ELSE DedupFrom(Tail(arr), Append(acc, Head(arr)))

\* a slip in line 52: the arrays concatenated without new Set
SetSpread_NoSet(arr) == arr

SetSpread(arr) == DedupFrom(arr, <<>>)

\* a slip in line 50: the local date always taken
MergeLastStudyDate_Local(local, cloud) ==
    IF Has(local, "lastStudyDate") THEN Prop("lastStudyDate", local.lastStudyDate) ELSE EmptyObj

\* a tie-break slip in line 50: > for >=, so that equal dates pick the cloud's value
MergeLastStudyDate_TieToCloud(local, cloud) ==
    IF NumOr0(local, "lastStudyDate") > NumOr0(cloud, "lastStudyDate")
    THEN (IF Has(local, "lastStudyDate") THEN Prop("lastStudyDate", local.lastStudyDate) ELSE EmptyObj)
    ELSE (IF Has(cloud, "lastStudyDate") THEN Prop("lastStudyDate", cloud.lastStudyDate) ELSE EmptyObj)

\* line 50: (local.lastStudyDate || '') >= (cloud.lastStudyDate || '')
\*            ? local.lastStudyDate : cloud.lastStudyDate
MergeLastStudyDate(local, cloud) ==
    IF NumOr0(local, "lastStudyDate") >= NumOr0(cloud, "lastStudyDate")
    THEN (IF Has(local, "lastStudyDate") THEN Prop("lastStudyDate", local.lastStudyDate) ELSE EmptyObj)
    ELSE (IF Has(cloud, "lastStudyDate") THEN Prop("lastStudyDate", cloud.lastStudyDate) ELSE EmptyObj)

\* a slip in line 52: the cloud side's achievements left out
mergeGlobal_LocalAchievements(local, cloud) ==
    IF Absent(local) THEN (IF Absent(cloud) THEN EmptyObj ELSE cloud)
    ELSE IF Absent(cloud) THEN local
    ELSE [dailyStreak   |-> Max(NumOr0(local, "dailyStreak"), NumOr0(cloud, "dailyStreak")),
          totalReviewed |-> Max(NumOr0(local, "totalReviewed"), NumOr0(cloud, "totalReviewed")),
          achievements  |-> SetSpread(ArrOrEmpty(local, "achievements"))]
         @@ MergeLastStudyDate(local, cloud)

\* mergeGlobal without the short-circuit of lines 46-47: an absent side is
\* merged as the empty object
mergeGlobal_NoShortCircuit(local, cloud) ==
    LET l == IF Absent(local) THEN EmptyObj ELSE local
        c == IF Absent(cloud) THEN EmptyObj ELSE cloud
    IN  IF Absent(local) /\ Absent(cloud) THEN EmptyObj
        ELSE [dailyStreak   |-> Max(NumOr0(l, "dailyStreak"), NumOr0(c, "dailyStreak")),
              totalReviewed |-> Max(NumOr0(l, "totalReviewed"), NumOr0(c, "totalReviewed")),
              achievements  |-> SetSpread(ArrOrEmpty(l, "achievements") \o ArrOrEmpty(c, "achievements"))]
             @@ MergeLastStudyDate(l, c)

mergeGlobal(local, cloud) ==
    IF Absent(local) THEN (IF Absent(cloud) THEN EmptyObj ELSE cloud)
    ELSE IF Absent(cloud) THEN local
    ELSE [dailyStreak   |-> Max(NumOr0(local, "dailyStreak"), NumOr0(cloud, "dailyStreak")),
          totalReviewed |-> Max(NumOr0(local, "totalReviewed"), NumOr0(cloud, "totalReviewed")),
          achievements  |-> SetSpread(ArrOrEmpty(local, "achievements") \o ArrOrEmpty(cloud, "achievements"))]
         @@ MergeLastStudyDate(local, cloud)

(* ------------------------------------------------------------------ *)
(* Reading history  (src/api/sync.js 74-83)                            *)
(*                                                                     *)
(* A history item is [t, s, o]: t is its JavaScript type; for a number *)
(* s is its decimal text, for a string s is the string, and for an     *)
(* object o is the sequence of its <<name, value>> properties in the   *)
(* order JSON.stringify writes them.                                   *)
(* ------------------------------------------------------------------ *)
HISTORY_CAP == 50

NumItem(n)  == [t |-> "number", s |-> ToString(n), o |-> <<>>]
StrItem(s)  == [t |-> "string", s |-> s,           o |-> <<>>]
ObjItem(ps) == [t |-> "object", s |-> "",          o |-> ps]

\* the number -0, which equals 0 and which String and JSON.stringify write as 0
NegZero == [t |-> "number", s |-> "-0", o |-> <<>>]

\* String(item) for a scalar item
String(item) == IF item = NegZero THEN "0" ELSE item.s

\* structural equality: scalars by value, objects property by property
PropSet(item) == {item.o[i] : i \in 1..Len(item.o)}
StructEq(a, b) == a.t = b.t /\ String(a) = String(b) /\ PropSet(a) = PropSet(b)

\* line 80: typeof item === 'object' ? JSON.stringify(item) : String(item)
\* JSON.stringify writes the properties in their order; String gives the text
ItemKey(item) == IF item.t = "object" THEN [json |-> item.o] ELSE [text |-> String(item)]

\* lines 77-82: an item is pushed when its key is not yet in `seen`, that is,
\* when no earlier item of the walk has its key
FirstOfKey(items, i) == \A j \in 1..(i - 1) : ItemKey(items[j]) # ItemKey(items[i])

DedupByKey(items) ==
    LET pushed == SelectSeq([i \in 1..Len(items) |-> i], LAMBDA i : FirstOfKey(items, i))
    IN  [k \in 1..Len(pushed) |-> items[pushed[k]]]

\* line 83: merged.slice(-50)
SliceLast(arr, n) ==
    IF Len(arr) <= n THEN arr ELSE SubSeq(arr, Len(arr) - n + 1, Len(arr))

mergeHistory(localHist, cloudHist) ==
    SliceLast(DedupByKey(localHist \o cloudHist), HISTORY_CAP)

(* ------------------------------------------------------------------ *)
(* JSON.stringify and JSON.parse of a snapshot  (src/api/sync.js 115,  *)
(* 125, 134, 137)                                                      *)
(*                                                                     *)
(* The text of a snapshot is [json |-> t]: t has the snapshot's        *)
(* properties, with each history item as the token that is written for *)
(* it: [num |-> digits], [str |-> characters] or [obj |-> properties]. *)
(* The other values of a snapshot are naturals, strings, booleans and  *)
(* objects of them, which are written and read back literally.         *)
(* ------------------------------------------------------------------ *)
ItemText(item) ==
    IF item.t = "number" THEN [num |-> String(item)]
    ELSE IF item.t = "string" THEN [str |-> item.s]
    ELSE [obj |-> item.o]

ItemOfText(token) ==
    IF Has(token, "num") THEN [t |-> "number", s |-> token.num, o |-> <<>>]
    ELSE IF Has(token, "str") THEN StrItem(token.str)
    ELSE ObjItem(token.obj)

JSONstringify(v) ==
    [json |-> IF Has(v, "readingHistory")
              THEN [v EXCEPT !["readingHistory"] = [i \in 1..Len(@) |-> ItemText(@[i])]]
              ELSE v]

JSONparse(text) ==
    LET v == text.json
    IN  IF Has(v, "readingHistory")
        THEN [v EXCEPT !["readingHistory"] = [i \in 1..Len(@) |-> ItemOfText(@[i])]]
        ELSE v

(* ------------------------------------------------------------------ *)
(* mergeAll  (src/api/sync.js 57-86)                                   *)
(* ------------------------------------------------------------------ *)

\* (decks || {})[id]
DeckOf(decks, id) == IF Has(decks, id) THEN decks[id] ELSE Undefined

\* a slip in lines 60-63: only the local side's deck identifiers are walked
MergeDecks_LocalIdsOnly(localDecks, cloudDecks) ==
    [id \in Keys(localDecks) |-> mergeWordStates(DeckOf(localDecks, id), DeckOf(cloudDecks, id))]

\* lines 60-69
MergeDecks(localDecks, cloudDecks) ==
    LET allDeckIds == Keys(localDecks) \cup Keys(cloudDecks)
    IN  [id \in allDeckIds |-> mergeWordStates(DeckOf(localDecks, id), DeckOf(cloudDecks, id))]

\* local.global as an argument: undefined when the property is missing
GlobalOf(snap) == IF Has(snap, "global") THEN snap.global ELSE Undefined

\* line 72 with the sides exchanged: the cloud's preferredDeck first
MergePreferredDeck_CloudFirst(local, cloud) ==
    IF Has(cloud, "preferredDeck") /\ cloud.preferredDeck # "" THEN cloud.preferredDeck
    ELSE IF Has(local, "preferredDeck") /\ local.preferredDeck # "" THEN local.preferredDeck
    ELSE ""

\* line 72: local.preferredDeck || cloud.preferredDeck || ''
MergePreferredDeck(local, cloud) ==
    IF Has(local, "preferredDeck") /\ local.preferredDeck # "" THEN local.preferredDeck
    ELSE IF Has(cloud, "preferredDeck") /\ cloud.preferredDeck # "" THEN cloud.preferredDeck
    ELSE ""

mergeAll(local, cloud) ==
    [decks          |-> MergeDecks(ObjOrEmpty(local, "decks"), ObjOrEmpty(cloud, "decks")),
     global         |-> mergeGlobal(GlobalOf(local), GlobalOf(cloud)),
     preferredDeck  |-> MergePreferredDeck(local, cloud),
     readingHistory |-> mergeHistory(ArrOrEmpty(local, "readingHistory"),
                                     ArrOrEmpty(cloud, "readingHistory"))]

(* ------------------------------------------------------------------ *)
(* The inputs the merge helpers are applied to                         *)
(* ------------------------------------------------------------------ *)

\* WordRecord: `next` (may be missing) and one opaque scheduling field
WordRecords == [interval : Opaque] \cup [next : 0..MaxNext, interval : Opaque]

StateMaps == PartialFns(Words, WordRecords)

OneWord == [w \in {"cat"} |-> [next |-> 1, interval |-> "a"]]

\* DeckStates: all state maps with few counters, and all counters with few state maps
DeckStates ==
    {a @@ b : a \in Opt("state", StateMaps), b \in Opt("points", {1})}
    \cup
    {a @@ b @@ c @@ d : a \in Opt("state", {OneWord}),
                        b \in Opt("points", 0..MaxCount),
                        c \in Opt("streak", 0..MaxCount),
                        d \in Opt("autoPlay", BOOLEAN)}

DeckArgs == DeckStates \cup {Undefined, Null}

\* achievements is a set of identifiers, serialised as an array without repeats
AchArrays == {a \in SeqsUpTo(AchIds, MaxAch) : \A i, j \in 1..Len(a) : a[i] = a[j] => i = j}

GlobalStates ==
    {a @@ b @@ c : a \in Opt("dailyStreak", 0..MaxCount),
                   b \in Opt("totalReviewed", 0..MaxCount),
                   c \in Opt("lastStudyDate", 0..MaxDate)}
    \cup
    {a @@ b : a \in Opt("achievements", AchArrays), b \in Opt("dailyStreak", {1})}

GlobalArgs == GlobalStates \cup {Undefined, Null}

\* History items: numbers and strings with the same text, and objects with
\* the same properties written in different orders
ShortItems ==
    {NumItem(1), StrItem("1"), StrItem("x"),
     ObjItem(<< <<"p", "1">>, <<"q", "2">> >>),
     ObjItem(<< <<"q", "2">>, <<"p", "1">> >>),
     ObjItem(<< <<"p", "1">> >>)}

\* the numbers a, a+1, ..., a+n-1
Run(a, n) == [i \in 1..n |-> NumItem(a + i - 1)]

\* runs that overlap, runs that together exceed the cap, and a full history
LongHistories ==
    {Run(1, MaxRun), Run(MaxRun + 1, MaxRun), Run(MaxRun, MaxRun), Run(1, 2 * MaxRun),
     Run(1, HISTORY_CAP)}

Histories ==
    SeqsUpTo(ShortItems, MaxShort)
    \cup {h \o r : h \in SeqsUpTo(ShortItems, 1), r \in LongHistories}
    \cup {r \o h : h \in SeqsUpTo(ShortItems, 1), r \in LongHistories}

\* a few DeckStates and GlobalStates for whole snapshots
SnapDeckStates ==
    {EmptyObj,
     [state |-> OneWord, points |-> 1, streak |-> 2, autoPlay |-> FALSE],
     [state |-> [w \in {"cat"} |-> [next |-> 2, interval |-> "b"]], points |-> 2],
     [state |-> [w \in {"dog"} |-> [interval |-> "b"]], streak |-> 1, autoPlay |-> TRUE]}

SnapGlobals ==
    {EmptyObj,
     [dailyStreak |-> 1, totalReviewed |-> 2, lastStudyDate |-> 1, achievements |-> <<"x">>],
     [dailyStreak |-> 2, lastStudyDate |-> 2, achievements |-> <<"y", "x">>],
     [totalReviewed |-> 1, achievements |-> <<"z">>]}

PreferredDecks == {"", "d1", "d2"}

\* Snapshots: all deck maps with few other fields, all of the other fields with
\* few deck maps, and all histories
SnapshotsByDecks ==
    {a @@ b : a \in Opt("decks", PartialFns(DeckIds, SnapDeckStates)),
              b \in Opt("global", {[dailyStreak |-> 1]})}

SnapshotsByGlobal ==
    {a @@ b @@ c : a \in Opt("decks", {[d \in {"d1"} |-> EmptyObj]}),
                   b \in Opt("global", SnapGlobals),
                   c \in Opt("preferredDeck", PreferredDecks)}

SnapshotsByHistory ==
    {Prop("readingHistory", h) : h \in Histories}

SnapshotPairs ==
    (SnapshotsByDecks \X SnapshotsByDecks)
    \cup (SnapshotsByGlobal \X SnapshotsByGlobal)
    \cup (SnapshotsByHistory \X SnapshotsByHistory)
    \cup (SnapshotsByDecks \X SnapshotsByGlobal)

(* ------------------------------------------------------------------ *)
(* SpecMerge: the merge helpers applied to every pair of inputs        *)
(* ------------------------------------------------------------------ *)
NoCall == [fn |-> "none"]

CallMergeWordStates ==
    /\ call = NoCall
    /\ \E local \in DeckArgs, cloud \in DeckArgs :
          call' = [fn |-> "mergeWordStates", local |-> local, cloud |-> cloud,
                   result |-> mergeWordStates(local, cloud)]
    /\ UNCHANGED <<users, store, clock, db, devices, limiter, req, version, hist>>

CallMergeGlobal ==
    /\ call = NoCall
    /\ \E local \in GlobalArgs, cloud \in GlobalArgs :
          call' = [fn |-> "mergeGlobal", local |-> local, cloud |-> cloud,
                   result |-> mergeGlobal(local, cloud)]
    /\ UNCHANGED <<users, store, clock, db, devices, limiter, req, version, hist>>

CallMergeAll ==
    /\ call = NoCall
    /\ \E pair \in SnapshotPairs :
          call' = [fn |-> "mergeAll", local |-> pair[1], cloud |-> pair[2],
                   result |-> mergeAll(pair[1], pair[2])]
    /\ UNCHANGED <<users, store, clock, db, devices, limiter, req, version, hist>>

(* ------------------------------------------------------------------ *)
(* verifyToken  (src/unnamed/part_000 37-64)                           *)
(*                                                                     *)
(* A token is NoToken (missing) or [sub, exp, sig]: the payload's sub  *)
(* and exp, and whether the signature is the HMAC of the payload.      *)
(* ------------------------------------------------------------------ *)
NoToken == [notoken |-> TRUE]

\* an exception: the call throws (or its promise rejects with) err
Throw(err) == [throw |-> err]
Throws(v)  == Has(v, "throw")

\* Error messages are sequences of fragments, so that String.includes can be
\* computed: includes(message, text) when one of the fragments is text.
includes(message, text) == \E i \in 1..Len(message) : message[i] = text

\* crypto.timingSafeEqual throws this when its buffers differ in length
RangeError == [message |-> <<"Input buffers must have the same byte length">>]

\* A token with a dot is [sub, exp, sig]: sig is "good" (the HMAC of the
\* payload), "bad" (another text of the same length) or "short" (a text of
\* another length).  A token without a dot is [name, parts]: the text before
\* the first colon of its base64url decoding, and the number of its
\* colon-separated parts.
verifyToken(token, now) ==
    IF token = NoToken THEN Null
    ELSE IF Has(token, "sig")
    THEN IF token.sig = "short" THEN Throw(RangeError)
         ELSE IF token.sig # "good" THEN Null
         ELSE IF token.exp # 0 /\ token.exp < now THEN Null
         ELSE [sub |-> token.sub]
    ELSE IF token.parts < 3 THEN Null
    ELSE IF token.name # "" /\ Len(token.name) >= 5 THEN [sub |-> token.name]
    ELSE Null

(* ------------------------------------------------------------------ *)
(* The database client  (src/unnamed/part_002 181-254)                 *)
(*                                                                     *)
(* db is "unprovisioned" when getClient throws the error of line 196   *)
(* (kept in _clientError and thrown again by every later call), and    *)
(* "flaky" when a statement can fail in the client or the server.      *)
(* A statement that fails changes no table.                            *)
(* ------------------------------------------------------------------ *)
UnprovisionedError ==
    [message |-> <<"TURSO_DATABASE_URL", " environment variable is not set. Configure it in the Vercel dashboard.">>]

\* errors of a statement: a message of the server, and an error without message
StatementErrors ==
    {[message |-> <<"SQLITE_BUSY: database is locked">>], [message |-> <<>>]}

AllErrors == {UnprovisionedError} \cup StatementErrors

\* the errors queryOne, execute or getSecret can reject with
DbErrors ==
    IF db = "unprovisioned" THEN {UnprovisionedError}
    ELSE IF db = "flaky" THEN StatementErrors
    ELSE {}

\* queryOne, execute or getSecret can resolve
DbAnswers == db # "unprovisioned"

\* a catch block without the test of line 144
CatchMessage_AlwaysGeneric(err) == "Internal server error."

\* lines 144-146: the message of the catch block
CatchMessage(err) ==
    IF err.message # <<>> /\ includes(err.message, "TURSO_DATABASE_URL")
    THEN "Backend database not configured. Contact the administrator."
    ELSE "Internal server error."

(* ------------------------------------------------------------------ *)
(* The handler  (src/api/sync.js 90-149)                               *)
(*                                                                     *)
(* The handler runs without interruption between two awaits; each      *)
(* action below is one such stretch.  A row of sync_data holds the     *)
(* JSON text of a snapshot.                                            *)
(* ------------------------------------------------------------------ *)
MaxReqs == 2     \* the number of invocations of the handler
Now0    == 2     \* Date.now() at the cold start; tokens carry an exp of 1..Now0

Reqs      == 1..MaxReqs
Usernames == {"alice", "bob"}
NoAccount == "carol"             \* a username that has no row in users

\* the snapshots the devices submit
DeviceSnapshots ==
    {[decks |-> [d \in {"d1"} |-> [state |-> OneWord, points |-> 1, streak |-> 2]],
      global |-> [dailyStreak |-> 1, totalReviewed |-> 2, lastStudyDate |-> 1,
                  achievements |-> <<"x">>],
      preferredDeck |-> "d1",
      readingHistory |-> <<NumItem(1)>>],
     [decks |-> [d \in {"d2"} |-> [state |-> [w \in {"dog"} |-> [next |-> 2, interval |-> "b"]],
                                  points |-> 2, streak |-> 1, autoPlay |-> TRUE]],
      global |-> [dailyStreak |-> 2, totalReviewed |-> 1, lastStudyDate |-> 2,
                  achievements |-> <<"y">>],
      readingHistory |-> <<StrItem("x")>>],
     [decks |-> [d \in {"d1"} |-> [state |-> [w \in {"dog"} |-> [interval |-> "a"]]]],
      readingHistory |-> <<NegZero>>]}

\* a snapshot stored by an earlier push
StoredBefore ==
    [decks |-> [d \in {"d2"} |-> [state |-> OneWord, points |-> 2]],
     global |-> [dailyStreak |-> 1, achievements |-> <<"z">>]]

\* a `data` that is a string or a number
Scalar == [scalar |-> TRUE]

\* the `data` of a request body: missing, or a snapshot
DataValues == {Undefined} \cup DeviceSnapshots

\* tokens that verify, for each account and for a username without one
GoodTokens == [sub : Usernames \cup {NoAccount}, exp : {Now0}, sig : {"good"}]

\* tokens that do not: missing, expired, wrongly signed
BadTokens ==
    {NoToken}
    \cup [sub : {"alice"}, exp : 1..(Now0 - 1), sig : {"good"}]
    \cup [sub : {"alice"}, exp : {Now0}, sig : {"bad"}]

Tokens == GoodTokens \cup BadTokens

\* request bodies { action, token, data }: every action with every data for
\* the tokens of accounts, and one body for each other token
Bodies ==
    [action : {"push", "merge"}, token : [sub : Usernames, exp : {Now0}, sig : {"good"}],
     data : DataValues]
    \cup [action : {"pull", "delete"}, token : [sub : Usernames, exp : {Now0}, sig : {"good"}],
          data : {Undefined}]
    \cup [action : {"merge"}, token : Tokens, data : {CHOOSE d \in DeviceSnapshots : TRUE}]

\* requests: POST with every body, and another method
Requests == ({"POST"} \X Bodies) \cup ({"GET"} \X {CHOOSE b \in Bodies : TRUE})

Idle == [pc |-> "idle"]

NoDevices == [turn |-> "none"]

\* tokens without a dot: one part or three, with a name of five characters,
\* of fewer, or none
LegacyTokens == [name : {"alice", "bob", ""}, parts : {1, 3}]

AliceToken == [sub |-> "alice", exp |-> Now0, sig |-> "good"]

\* every kind of token: verifying for an account and for a username without
\* one, missing, expired, wrongly signed with a signature of the right and of
\* another length, and without a dot
AllTokens ==
    {AliceToken, [sub |-> NoAccount, exp |-> Now0, sig |-> "good"]}
    \cup BadTokens
    \cup [sub : {"alice"}, exp : {Now0}, sig : {"short"}]
    \cup LegacyTokens

OneSnapshot == CHOOSE d \in DeviceSnapshots : Has(d, "preferredDeck")

\* request bodies with every kind of token and of data: every action with every
\* data for one account, and for every token every action, a push without data
\* and a merge with data
AllBodies ==
    [action : {"push", "pull", "merge", "delete"}, token : {AliceToken},
     data : {Undefined, Null, Scalar, OneSnapshot}]
    \cup [action : {"push", "pull", "delete"}, token : AllTokens, data : {Undefined}]
    \cup [action : {"merge"}, token : AllTokens, data : {OneSnapshot}]

AllRequests == ({"POST"} \X AllBodies) \cup ({"GET"} \X {CHOOSE b \in AllBodies : TRUE})

\* what a snapshot holds: its deck identifiers, word keys and achievements
Contents(snap) ==
    LET decks == ObjOrEmpty(snap, "decks")
        ach   == ArrOrEmpty(ObjOrEmpty(snap, "global"), "achievements")
    IN  {<<"deck", id, "">> : id \in Keys(decks)}
        \cup UNION {{<<"word", id, w>> : w \in Keys(ObjOrEmpty(decks[id], "state"))} : id \in Keys(decks)}
        \cup {<<"achievement", ach[i], "">> : i \in 1..Len(ach)}

RowContents(record) == IF record = Null THEN {} ELSE Contents(JSONparse(record.data))

\* History of the writes to one row.
\*   writes:  "clean" while every write was a merge that no other write came
\*            between its read and its write; "merges" while every write was a
\*            merge; "any" otherwise
\*   owed:    while clean, the contents of the row at the start and of every
\*            snapshot merged into it
\*   lastKind, lastReadAt: the last write, and the version its invocation read
\*   raced:   the last write was a merge that read the same version as the
\*            merge that wrote before it
\*   lost:    when raced, the contents of the replaced row that the write dropped
\*   pushed:  when the last write was a push, the `data` of its request
HistInit(record) ==
    [writes |-> "clean", owed |-> RowContents(record), lastKind |-> "none",
     lastReadAt |-> 0, raced |-> FALSE, lost |-> {}, pushed |-> Undefined]

HistAfterPush(h, data) ==
    [writes |-> "any", owed |-> {}, lastKind |-> "push", lastReadAt |-> 0,
     raced |-> FALSE, lost |-> {}, pushed |-> data]

HistAfterMerge(h, r, record, ver) ==
    LET fresh  == r.readAt = ver
        raced  == h.lastKind = "merge" /\ h.lastReadAt = r.readAt
        writes == IF h.writes = "clean" /\ fresh THEN "clean"
                  ELSE IF h.writes = "any" THEN "any" ELSE "merges"
    IN  [writes |-> writes,
         owed |-> IF writes = "clean" THEN h.owed \cup Contents(r.data) ELSE {},
         lastKind |-> "merge", lastReadAt |-> r.readAt, raced |-> raced,
         lost |-> IF raced THEN RowContents(record) \ Contents(r.merged) ELSE {},
         pushed |-> Undefined]

\* res.status(code).json(body), the end of an invocation; io and wrote are
\* the calls the invocation has made and the number of its writes
Respond(r, code, body, io, wrote) ==
    req' = [req EXCEPT ![r] = [pc |-> "done", status |-> code, body |-> body,
                               io |-> io, wrote |-> wrote]]

\* a test of data by its type alone: typeof null is 'object'
BadData_TypeofOnly(data) == data = Undefined \/ data = Scalar

\* `!data || typeof data !== 'object'`
BadData(data) == data = Undefined \/ data = Null \/ data = Scalar

\* token.js 41-45: a token with a dot has its signature checked, with getSecret()
CallsGetSecret(token) == Has(token, "sig")

\* lines 90-104: the method check, verifyToken, and the query on users issued;
\* an exception of verifyToken is caught in lines 142-147
Receive(r, method, body) ==
    /\ req[r] = Idle
    /\ \A q \in Reqs : q < r => req[q] # Idle
    /\ IF method # "POST"
       THEN Respond(r, 405, [ok |-> FALSE, message |-> "Method not allowed"], <<>>, 0)
       ELSE \/ /\ CallsGetSecret(body.token)
               /\ \E err \in DbErrors :
                     Respond(r, 500, [ok |-> FALSE, message |-> CatchMessage(err)],
                             <<"verifyToken">>, 0)
            \/ /\ CallsGetSecret(body.token) => DbAnswers
               /\ LET username == verifyToken(body.token, clock)
                  IN  IF Throws(username)
                      THEN Respond(r, 500, [ok |-> FALSE, message |-> CatchMessage(username.throw)],
                                   <<"verifyToken">>, 0)
                      ELSE IF username = Null
                      THEN Respond(r, 401, [ok |-> FALSE, message |-> "Invalid or expired token."],
                                   <<"verifyToken">>, 0)
                      ELSE req' = [req EXCEPT ![r] =
                                      [pc |-> "user_check", action |-> body.action,
                                       data |-> body.data, username |-> username.sub,
                                       io |-> <<"verifyToken", "SELECT users">>, wrote |-> 0]]
    /\ UNCHANGED <<call, users, store, clock, db, devices, limiter, version, hist>>

\* the locals of invocation r at its next await, having issued statement stmt
Await(r, pc, locals, stmt) ==
    req' = [req EXCEPT ![r] = [pc |-> pc, io |-> Append(req[r].io, stmt)] @@ locals @@ req[r]]

\* a dispatch that trusts the token: the users row is not looked at
UserCheck_NoLookup(r) ==
    /\ req[r].pc = "user_check"
    /\ DbAnswers
    /\ LET action == req[r].action
           data   == req[r].data
           io     == req[r].io
       IN  IF action = "push"
           THEN IF BadData(data)
                THEN Respond(r, 400, [ok |-> FALSE, message |-> "Missing data payload."], io, 0)
                ELSE Await(r, "push_write", [now |-> clock], "REPLACE sync_data")
           ELSE IF action = "pull"
           THEN Await(r, "pull_read", EmptyObj, "SELECT sync_data")
           ELSE IF action = "merge"
           THEN IF BadData(data)
                THEN Respond(r, 400, [ok |-> FALSE, message |-> "Missing data payload."], io, 0)
                ELSE Await(r, "merge_read", EmptyObj, "SELECT sync_data")
           ELSE Respond(r, 400, [ok |-> FALSE,
                                 message |-> "Unsupported action. Use push, pull, or merge."],
                        io, 0)
    /\ UNCHANGED <<call, users, store, clock, db, devices, limiter, version, hist>>

\* lines 104-133: the users row arrives; dispatch on the action up to its first query
UserCheck(r) ==
    /\ req[r].pc = "user_check"
    /\ DbAnswers
    /\ LET action == req[r].action
           data   == req[r].data
           io     == req[r].io
       IN  IF req[r].username \notin users
           THEN Respond(r, 401, [ok |-> FALSE, message |-> "User not found."], io, 0)
           ELSE IF action = "push"
           THEN IF BadData(data)
                THEN Respond(r, 400, [ok |-> FALSE, message |-> "Missing data payload."], io, 0)
                ELSE Await(r, "push_write", [now |-> clock], "REPLACE sync_data")
           ELSE IF action = "pull"
           THEN Await(r, "pull_read", EmptyObj, "SELECT sync_data")
           ELSE IF action = "merge"
           THEN IF BadData(data)
                THEN Respond(r, 400, [ok |-> FALSE, message |-> "Missing data payload."], io, 0)
                ELSE Await(r, "merge_read", EmptyObj, "SELECT sync_data")
           ELSE Respond(r, 400, [ok |-> FALSE,
                                 message |-> "Unsupported action. Use push, pull, or merge."],
                        io, 0)
    /\ UNCHANGED <<call, users, store, clock, db, devices, limiter, version, hist>>

\* a push that merges the pushed data with the row it replaces
PushWrite_Merging(r) ==
    /\ req[r].pc = "push_write"
    /\ DbAnswers
    /\ LET u         == req[r].username
           cloudData == IF store[u] # Null THEN JSONparse(store[u].data) ELSE req[r].data
           merged    == mergeAll(req[r].data, cloudData)
       IN  /\ store' = [store EXCEPT ![u] = [data |-> JSONstringify(merged), updated_at |-> req[r].now]]
           /\ version' = [version EXCEPT ![u] = @ + 1]
           /\ hist' = [hist EXCEPT ![u] = HistAfterPush(@, req[r].data)]
           /\ Respond(r, 200, [ok |-> TRUE, message |-> "Data saved.", updatedAt |-> req[r].now],
                      req[r].io, req[r].wrote + 1)
    /\ UNCHANGED <<call, users, clock, db, devices, limiter>>

\* lines 115-116: INSERT OR REPLACE of the pushed data, and the response
PushWrite(r) ==
    /\ req[r].pc = "push_write"
    /\ DbAnswers
    /\ LET u == req[r].username
       IN  /\ store' = [store EXCEPT ![u] = [data |-> JSONstringify(req[r].data), updated_at |-> req[r].now]]
           /\ version' = [version EXCEPT ![u] = @ + 1]
           /\ hist' = [hist EXCEPT ![u] = HistAfterPush(@, req[r].data)]
           /\ Respond(r, 200, [ok |-> TRUE, message |-> "Data saved.", updatedAt |-> req[r].now],
                      req[r].io, req[r].wrote + 1)
    /\ UNCHANGED <<call, users, clock, db, devices, limiter>>

\* a pull that treats a missing row as an error
PullRead_NotFound(r) ==
    /\ req[r].pc = "pull_read"
    /\ DbAnswers
    /\ LET record == store[req[r].username]
       IN  IF record = Null
           THEN Respond(r, 404, [ok |-> FALSE, message |-> "No cloud data found."],
                        req[r].io, req[r].wrote)
           ELSE Respond(r, 200, [ok |-> TRUE, data |-> JSONparse(record.data),
                                 updatedAt |-> record.updated_at],
                        req[r].io, req[r].wrote)
    /\ UNCHANGED <<call, users, store, clock, db, devices, limiter, version, hist>>

\* a pull that stamps the row it reads with the time of the read
PullRead_Touching(r) ==
    /\ req[r].pc = "pull_read"
    /\ DbAnswers
    /\ LET u      == req[r].username
           record == store[u]
       IN  IF record = Null
           THEN /\ Respond(r, 200, [ok |-> TRUE, data |-> Null, message |-> "No cloud data found."],
                           req[r].io, req[r].wrote)
                /\ store' = store
           ELSE /\ Respond(r, 200, [ok |-> TRUE, data |-> JSONparse(record.data),
                                    updatedAt |-> record.updated_at],
                           req[r].io, req[r].wrote)
                /\ store' = [store EXCEPT ![u] = [data |-> record.data, updated_at |-> clock]]
    /\ UNCHANGED <<call, users, clock, db, devices, limiter, version, hist>>

\* a pull whose SELECT has no WHERE clause: it returns the first row of sync_data
PullRead_FirstRow(r) ==
    /\ req[r].pc = "pull_read"
    /\ DbAnswers
    /\ LET rows   == {u \in Usernames : store[u] # Null}
           record == IF rows = {} THEN Null
                     ELSE store[CHOOSE u \in rows : \A v \in rows : u = "alice" \/ v # "alice"]
       IN  IF record = Null
           THEN Respond(r, 200, [ok |-> TRUE, data |-> Null, message |-> "No cloud data found."],
                        req[r].io, req[r].wrote)
           ELSE Respond(r, 200, [ok |-> TRUE, data |-> JSONparse(record.data),
                                 updatedAt |-> record.updated_at],
                        req[r].io, req[r].wrote)
    /\ UNCHANGED <<call, users, store, clock, db, devices, limiter, version, hist>>

\* lines 121-125: the sync_data row arrives, and the response
PullRead(r) ==
    /\ req[r].pc = "pull_read"
    /\ DbAnswers
    /\ LET record == store[req[r].username]
       IN  IF record = Null
           THEN Respond(r, 200, [ok |-> TRUE, data |-> Null, message |-> "No cloud data found."],
                        req[r].io, req[r].wrote)
           ELSE Respond(r, 200, [ok |-> TRUE, data |-> JSONparse(record.data),
                                 updatedAt |-> record.updated_at],
                        req[r].io, req[r].wrote)
    /\ UNCHANGED <<call, users, store, clock, db, devices, limiter, version, hist>>

\* a slip in line 135: the arguments of mergeAll exchanged
MergeRead_ArgsSwapped(r) ==
    /\ req[r].pc = "merge_read"
    /\ DbAnswers
    /\ LET record    == store[req[r].username]
           cloudData == IF record # Null THEN JSONparse(record.data) ELSE EmptyObj
       IN  Await(r, "merge_write",
                 [cloudData |-> cloudData, merged |-> mergeAll(cloudData, req[r].data),
                  now |-> clock, readAt |-> version[req[r].username]],
                 "REPLACE sync_data")
    /\ UNCHANGED <<call, users, store, clock, db, devices, limiter, version, hist>>

\* lines 133-137: the sync_data row arrives, mergeAll, Date.now(), the write issued
MergeRead(r) ==
    /\ req[r].pc = "merge_read"
    /\ DbAnswers
    /\ LET record    == store[req[r].username]
           cloudData == IF record # Null THEN JSONparse(record.data) ELSE EmptyObj
       IN  Await(r, "merge_write",
                 [cloudData |-> cloudData, merged |-> mergeAll(req[r].data, cloudData),
                  now |-> clock, readAt |-> version[req[r].username]],
                 "REPLACE sync_data")
    /\ UNCHANGED <<call, users, store, clock, db, devices, limiter, version, hist>>

\* the write of a merge made atomic with a second read: the row is merged
\* again with what is stored when the write is made
MergeWrite_Atomic(r) ==
    /\ req[r].pc = "merge_write"
    /\ DbAnswers
    /\ LET u         == req[r].username
           cloudData == IF store[u] # Null THEN JSONparse(store[u].data) ELSE EmptyObj
           merged    == mergeAll(req[r].data, cloudData)
       IN  /\ store' = [store EXCEPT ![u] = [data |-> JSONstringify(merged), updated_at |-> req[r].now]]
           /\ version' = [version EXCEPT ![u] = @ + 1]
           /\ hist' = [hist EXCEPT ![u] = HistAfterMerge(@, req[r], store[u], version[u])]
           /\ Respond(r, 200, [ok |-> TRUE, data |-> merged, updatedAt |-> req[r].now,
                               message |-> "Merged successfully."],
                      req[r].io, req[r].wrote + 1)
    /\ UNCHANGED <<call, users, clock, db, devices, limiter>>

\* lines 137-138: INSERT OR REPLACE of the merged data, and the response
MergeWrite(r) ==
    /\ req[r].pc = "merge_write"
    /\ DbAnswers
    /\ LET u == req[r].username
       IN  /\ store' = [store EXCEPT ![u] = [data |-> JSONstringify(req[r].merged), updated_at |-> req[r].now]]
           /\ version' = [version EXCEPT ![u] = @ + 1]
           /\ hist' = [hist EXCEPT ![u] = HistAfterMerge(@, req[r], store[u], version[u])]
           /\ Respond(r, 200, [ok |-> TRUE, data |-> req[r].merged, updatedAt |-> req[r].now,
                               message |-> "Merged successfully."],
                      req[r].io, req[r].wrote + 1)
    /\ UNCHANGED <<call, users, clock, db, devices, limiter>>

\* the positions at which an invocation awaits queryOne or execute
Awaiting == {"user_check", "push_write", "pull_read", "merge_read", "merge_write"}

\* a statement that is applied and then reported as failed
DbThrow_AfterWrite(r, err) ==
    /\ req[r].pc \in Awaiting
    /\ err \in DbErrors
    /\ LET u == req[r].username
       IN  IF req[r].pc = "push_write"
           THEN /\ store' = [store EXCEPT ![u] = [data |-> JSONstringify(req[r].data), updated_at |-> req[r].now]]
                /\ version' = [version EXCEPT ![u] = @ + 1]
                /\ hist' = [hist EXCEPT ![u] = HistAfterPush(@, req[r].data)]
                /\ Respond(r, 500, [ok |-> FALSE, message |-> CatchMessage(err)],
                           req[r].io, req[r].wrote + 1)
           ELSE /\ Respond(r, 500, [ok |-> FALSE, message |-> CatchMessage(err)],
                           req[r].io, req[r].wrote)
                /\ UNCHANGED <<store, version, hist>>
    /\ UNCHANGED <<call, users, clock, db, devices, limiter>>

\* lines 142-147: the awaited queryOne or execute rejects with err; no table
\* has changed, and the catch block responds
DbThrow(r, err) ==
    /\ req[r].pc \in Awaiting
    /\ err \in DbErrors
    /\ Respond(r, 500, [ok |-> FALSE, message |-> CatchMessage(err)], req[r].io, req[r].wrote)
    /\ UNCHANGED <<call, users, store, clock, db, devices, limiter, version, hist>>

(* ------------------------------------------------------------------ *)
(* The rate limiter of the auth endpoint  (src/api/auth.js 33-70)      *)
(*                                                                     *)
(* _attempts is a Map from the client's address to the array of the    *)
(* times of its hits: a function whose DOMAIN is the keys of the Map.  *)
(* Times are in milliseconds, as Date.now() gives them.                *)
(* ------------------------------------------------------------------ *)
RATE_WINDOW == 15 * 60 * 1000
RATE_MAX    == 20

MaxAdvances == 1     \* the number of times the clock advances
MaxFew      == 1     \* the number of requests that come without an address

\* the clock advances by a window, or by a millisecond less
Advances == {RATE_WINDOW - 1, RATE_WINDOW}

Times == UNION {{Now0 + k * RATE_WINDOW - j : j \in 0..k} : k \in 0..MaxAdvances}

\* line 67: req.headers['x-forwarded-for'] || req.socket?.remoteAddress || 'unknown';
\* a header or address that is absent is ''
ClientKey(xff, remote) ==
    IF xff # "" THEN xff ELSE IF remote # "" THEN remote ELSE "unknown"

ClientKeys == {"10.0.0.1", "unknown"}

\* _attempts.get(ip) || []
MapGet(m, k) == IF k \in DOMAIN m THEN m[k] ELSE <<>>

\* _attempts.set(ip, v)
MapSet(m, k, v) == [x \in DOMAIN m \cup {k} |-> IF x = k THEN v ELSE m[x]]

\* hits.filter(t => now - t < RATE_WINDOW)
Fresh(hits, now) == SelectSeq(hits, LAMBDA t : now - t < RATE_WINDOW)

\* a slip in line 44: > for >=, so that a hit is admitted when RATE_MAX are fresh
isRateLimited_AdmitsAtMax(attempts, ip, now) ==
    LET hits == Fresh(MapGet(attempts, ip), now)
    IN  IF Len(hits) > RATE_MAX
        THEN [limited |-> TRUE,  attempts |-> MapSet(attempts, ip, hits)]
        ELSE [limited |-> FALSE, attempts |-> MapSet(attempts, ip, Append(hits, now))]

\* lines 39-47: the value returned, and _attempts after the call (hits.push
\* appends to the array that line 43 has put into the Map)
isRateLimited(attempts, ip, now) ==
    LET hits == Fresh(MapGet(attempts, ip), now)
    IN  IF Len(hits) >= RATE_MAX
        THEN [limited |-> TRUE,  attempts |-> MapSet(attempts, ip, hits)]
        ELSE [limited |-> FALSE, attempts |-> MapSet(attempts, ip, Append(hits, now))]

\* lines 50-57, the body of the setInterval callback: _attempts after it
Cleaned(attempts, now) ==
    [ip \in {k \in DOMAIN attempts : Fresh(attempts[k], now) # <<>>} |-> Fresh(attempts[ip], now)]

\* the limiter after the module is loaded; as history, the number of hits
\* admitted for each address at each time, the status of the last response
\* and the number of requests that came without an address
NoAttempts ==
    [attempts   |-> <<>>,
     admittedAt |-> [k \in ClientKeys |-> [t \in Times |-> 0]],
     status     |-> 0,
     few        |-> 0]

\* requests to the auth endpoint: the method, and the address of the client
\* in the x-forwarded-for header, in the socket, or in neither
AuthRequests ==
    {[method |-> "POST", xff |-> "10.0.0.1", remote |-> ""],
     [method |-> "POST", xff |-> "",         remote |-> "10.0.0.1"],
     [method |-> "POST", xff |-> "",         remote |-> ""],
     [method |-> "GET",  xff |-> "10.0.0.1", remote |-> ""]}

\* part_005 61-79: the method check and the rate limit; a request that is
\* admitted is handled further (as a ping it is answered 200)
AuthReceive(request) ==
    /\ IF request.method # "POST"
       THEN limiter' = [limiter EXCEPT !.status = 405]
       ELSE LET ip  == ClientKey(request.xff, request.remote)
                res == isRateLimited(limiter.attempts, ip, clock)
            IN  /\ ip = "unknown" => limiter.few < MaxFew
                /\ limiter' =
                      [attempts   |-> res.attempts,
                       admittedAt |-> IF res.limited THEN limiter.admittedAt
                                      ELSE [limiter.admittedAt EXCEPT ![ip][clock] = @ + 1],
                       status     |-> IF res.limited THEN 429 ELSE 200,
                       few        |-> IF ip = "unknown" THEN limiter.few + 1 ELSE limiter.few]
    /\ UNCHANGED <<call, users, store, clock, db, devices, req, version, hist>>

\* lines 50-57: the setInterval callback runs
Cleanup ==
    /\ limiter' = [limiter EXCEPT !.attempts = Cleaned(@, clock)]
    /\ UNCHANGED <<call, users, store, clock, db, devices, req, version, hist>>

\* Date.now() advances
Advance(by) ==
    /\ clock - Now0 <= (MaxAdvances - 1) * RATE_WINDOW
    /\ clock' = clock + by
    /\ UNCHANGED <<call, users, store, db, devices, limiter, req, version, hist>>

vars == <<call, users, store, clock, db, devices, limiter, req, version, hist>>

\* the tables as a cold start finds them: accounts exist, and a row of
\* sync_data is absent or holds a snapshot pushed earlier
Init ==
    /\ call = NoCall
    /\ users = Usernames
    /\ store \in [Usernames -> {Null, [data |-> JSONstringify(StoredBefore), updated_at |-> 0]}]
    /\ clock = Now0
    /\ db = "up"
    /\ devices = NoDevices
    /\ limiter = NoAttempts
    /\ req = [r \in Reqs |-> Idle]
    /\ version = [u \in Usernames |-> 0]
    /\ hist = [u \in Usernames |-> HistInit(store[u])]

Next ==
    \/ \E r \in Reqs, request \in Requests : Receive(r, request[1], request[2])
    \/ \E r \in Reqs : UserCheck(r)
    \/ \E r \in Reqs : PushWrite(r)
    \/ \E r \in Reqs : PullRead(r)
    \/ \E r \in Reqs : MergeRead(r)
    \/ \E r \in Reqs : MergeWrite(r)

Spec == Init /\ [][Next]_vars

(* ------------------------------------------------------------------ *)
(* SpecIO: the handler with every kind of request, over a database     *)
(* that is up, unprovisioned or flaky                                  *)
(* ------------------------------------------------------------------ *)
InitIO ==
    /\ call = NoCall
    /\ users = Usernames
    /\ store \in {s \in [Usernames -> {Null, [data |-> JSONstringify(StoredBefore), updated_at |-> 0]}] :
                     s["bob"] = Null}
    /\ clock = Now0
    /\ db \in {"up", "unprovisioned", "flaky"}
    /\ devices = NoDevices
    /\ limiter = NoAttempts
    /\ req = [r \in Reqs |-> Idle]
    /\ version = [u \in Usernames |-> 0]
    /\ hist = [u \in Usernames |-> HistInit(store[u])]

NextIO ==
    \/ \E r \in Reqs, request \in AllRequests : Receive(r, request[1], request[2])
    \/ \E r \in Reqs : UserCheck(r)
    \/ \E r \in Reqs : PushWrite(r)
    \/ \E r \in Reqs : PullRead(r)
    \/ \E r \in Reqs : MergeRead(r)
    \/ \E r \in Reqs : MergeWrite(r)
    \/ \E r \in Reqs, err \in AllErrors : DbThrow(r, err)

SpecIO == InitIO /\ [][NextIO]_vars

(* ------------------------------------------------------------------ *)
(* SpecAccounts: the handler while accounts are registered and the     *)
(* server clock advances  (src/unnamed/part_005 81-97)                 *)
(* ------------------------------------------------------------------ *)
MaxTicks == 2    \* the number of times the clock advances

\* part_005 12-14: validateUsername, for a name of letters
validateUsername(u) == Len(u) >= 5 /\ Len(u) <= 30

\* part_005 81-97: register inserts the row of a valid username that has none
Register(u) ==
    /\ validateUsername(u)
    /\ u \notin users
    /\ users' = users \cup {u}
    /\ UNCHANGED <<call, store, clock, db, devices, limiter, req, version, hist>>

\* Date.now() advances
Tick ==
    /\ clock < Now0 + MaxTicks
    /\ clock' = clock + 1
    /\ UNCHANGED <<call, users, store, db, devices, limiter, req, version, hist>>

\* tokens that verify as long as the clock runs: the signed token of bob, and
\* a token without a dot that names alice
LastingTokens ==
    {[sub |-> "bob", exp |-> Now0 + MaxTicks, sig |-> "good"], [name |-> "alice", parts |-> 3]}

AccountBodies ==
    [action : {"push", "merge"}, token : LastingTokens, data : {OneSnapshot}]
    \cup [action : {"pull"}, token : LastingTokens, data : {Undefined}]

AccountRequests == {"POST"} \X AccountBodies

\* bob has an account, and possibly a row; alice has neither
InitAccounts ==
    /\ call = NoCall
    /\ users = {"bob"}
    /\ store \in {s \in [Usernames -> {Null, [data |-> JSONstringify(StoredBefore), updated_at |-> 0]}] :
                     s["alice"] = Null}
    /\ clock = Now0
    /\ db = "up"
    /\ devices = NoDevices
    /\ limiter = NoAttempts
    /\ req = [r \in Reqs |-> Idle]
    /\ version = [u \in Usernames |-> 0]
    /\ hist = [u \in Usernames |-> HistInit(store[u])]

NextAccounts ==
    \/ \E r \in Reqs, request \in AccountRequests : Receive(r, request[1], request[2])
    \/ \E r \in Reqs : UserCheck(r)
    \/ \E r \in Reqs : PushWrite(r)
    \/ \E r \in Reqs : PullRead(r)
    \/ \E r \in Reqs : MergeRead(r)
    \/ \E r \in Reqs : MergeWrite(r)
    \/ \E u \in Usernames : Register(u)
    \/ Tick

SpecAccounts == InitAccounts /\ [][NextAccounts]_vars

InitMerge ==
    /\ call = NoCall
    /\ users = Usernames
    /\ store = [u \in Usernames |-> Null]
    /\ clock = Now0
    /\ db = "up"
    /\ devices = NoDevices
    /\ limiter = NoAttempts
    /\ req = [r \in Reqs |-> Idle]
    /\ version = [u \in Usernames |-> 0]
    /\ hist = [u \in Usernames |-> HistInit(Null)]

(* ------------------------------------------------------------------ *)
(* SpecLimiter: requests to the auth endpoint, the cleanup callback    *)
(* and the clock                                                       *)
(* ------------------------------------------------------------------ *)
NextLimiter ==
    \/ \E request \in AuthRequests : AuthReceive(request)
    \/ Cleanup
    \/ \E by \in Advances : Advance(by)

SpecLimiter == InitMerge /\ [][NextLimiter]_vars

NextMerge == CallMergeWordStates \/ CallMergeGlobal \/ CallMergeAll

SpecMerge == InitMerge /\ [][NextMerge]_vars

(* ------------------------------------------------------------------ *)
(* SpecTurns: two devices of one principal take turns invoking merge,  *)
(* each with the snapshot it holds, and adopt the snapshot returned.   *)
(* An invocation is made when no other is in progress.                 *)
(* ------------------------------------------------------------------ *)
MaxTurns == 6    \* the number of merges the devices make

Devices == {"A", "B"}

Other(d) == IF d = "A" THEN "B" ELSE "A"

\* snapshots that differ in a word with equal next, in autoPlay, in
\* preferredDeck, and in the order of the same history entries
ConflictingSnapshots ==
    {[decks |-> [d \in {"d1"} |-> [state |-> [w \in {"cat"} |-> [next |-> 1, interval |-> "a"]]]]],
     [decks |-> [d \in {"d1"} |-> [state |-> [w \in {"cat"} |-> [next |-> 1, interval |-> "b"]]]]],
     [decks |-> [d \in {"d1"} |-> [autoPlay |-> TRUE]]],
     [decks |-> [d \in {"d1"} |-> [autoPlay |-> FALSE]]],
     [preferredDeck |-> "d1"],
     [preferredDeck |-> "d2"],
     [readingHistory |-> <<NumItem(1), StrItem("x")>>],
     [readingHistory |-> <<StrItem("x"), NumItem(1)>>]}

TurnSnapshots == DeviceSnapshots \cup ConflictingSnapshots

\* the device whose turn it is invokes merge with the snapshot it holds
DeviceSend(d) ==
    /\ devices.turn = d
    /\ devices.merges < MaxTurns
    /\ \A r \in Reqs : req[r] = Idle
    /\ Receive(1, "POST", [action |-> "merge", token |-> AliceToken, data |-> devices.snap[d]])

\* the device reads the response, adopts its data, and the turn passes
DeviceAdopt(d) ==
    /\ devices.turn = d
    /\ req[1].pc = "done"
    /\ devices' = [snap   |-> [devices.snap EXCEPT ![d] = JSONparse(JSONstringify(req[1].body.data))],
                   turn   |-> Other(d),
                   merges |-> devices.merges + 1]
    /\ req' = [req EXCEPT ![1] = Idle]
    /\ UNCHANGED <<call, users, store, clock, db, limiter, version, hist>>

InitTurns ==
    /\ call = NoCall
    /\ users = Usernames
    /\ store \in {s \in [Usernames -> {Null, [data |-> JSONstringify(StoredBefore), updated_at |-> 0]}] :
                     s["bob"] = Null}
    /\ clock = Now0
    /\ db = "up"
    /\ devices \in [snap : [Devices -> TurnSnapshots], turn : {"A"}, merges : {0}]
    /\ limiter = NoAttempts
    /\ req = [r \in Reqs |-> Idle]
    /\ version = [u \in Usernames |-> 0]
    /\ hist = [u \in Usernames |-> HistInit(store[u])]

NextTurns ==
    \/ \E d \in Devices : DeviceSend(d)
    \/ \E r \in Reqs : UserCheck(r)
    \/ \E r \in Reqs : MergeRead(r)
    \/ \E r \in Reqs : MergeWrite(r)
    \/ \E d \in Devices : DeviceAdopt(d)

SpecTurns == InitTurns /\ [][NextTurns]_vars

(* ------------------------------------------------------------------ *)
(* Properties of the merge helpers (checked under SpecMerge)           *)
(* ------------------------------------------------------------------ *)
IsCall(fn) == call.fn = fn

\* the state map of a DeckState argument: empty when the side or the map is absent
StateOf(deck) == IF deck = Undefined THEN EmptyObj ELSE ObjOrEmpty(deck, "state")

\* a counter of a DeckState or GlobalState argument: 0 when the side or the counter is absent
CounterOf(obj, p) == IF obj = Undefined THEN 0 ELSE NumOr0(obj, p)

\* the achievements of a GlobalState argument, as a set
AchSetOf(g) ==
    IF g = Undefined THEN {}
    ELSE LET a == ArrOrEmpty(g, "achievements") IN {a[i] : i \in 1..Len(a)}

NoRepeats(arr) == \A i, j \in 1..Len(arr) : arr[i] = arr[j] => i = j

C2_GreaterNextWinsTiesLocal ==
    (IsCall("mergeWordStates") /\ call.local # Undefined /\ call.cloud # Undefined) =>
        \A w \in Keys(StateOf(call.local)) \cap Keys(StateOf(call.cloud)) :
            LET l == call.local.state[w]
                c == call.cloud.state[w]
            IN  call.result.state[w] =
                    IF NumOr0(c, "next") > NumOr0(l, "next") THEN c ELSE l

C2_Witness ==
    /\ IsCall("mergeWordStates")
    /\ call.local # Undefined /\ call.cloud # Undefined
    /\ \E w \in Keys(StateOf(call.local)) \cap Keys(StateOf(call.cloud)) :
          /\ Has(call.local.state[w], "next") /\ Has(call.cloud.state[w], "next")
          /\ call.local.state[w].next = call.cloud.state[w].next
          /\ call.local.state[w] # call.cloud.state[w]
          /\ call.result.state[w] = call.local.state[w]

\* C3: merged points, streak, dailyStreak and totalReviewed are each the
\* maximum of the two sides' values (a missing value counts as 0), in
\* mergeWordStates, in mergeGlobal and in each deck and the global of mergeAll.
C3_CountersAreMax ==
    /\ IsCall("mergeWordStates") =>
          \A p \in {"points", "streak"} :
              CounterOf(call.result, p) = Max(CounterOf(call.local, p), CounterOf(call.cloud, p))
    /\ IsCall("mergeGlobal") =>
          \A p \in {"dailyStreak", "totalReviewed"} :
              CounterOf(call.result, p) = Max(CounterOf(call.local, p), CounterOf(call.cloud, p))
    /\ IsCall("mergeAll") =>
          /\ \A p \in {"dailyStreak", "totalReviewed"} :
                CounterOf(call.result.global, p)
                    = Max(CounterOf(GlobalOf(call.local), p), CounterOf(GlobalOf(call.cloud), p))
          /\ \A id \in Keys(call.result.decks) : \A p \in {"points", "streak"} :
                CounterOf(call.result.decks[id], p)
                    = Max(CounterOf(DeckOf(ObjOrEmpty(call.local, "decks"), id), p),
                          CounterOf(DeckOf(ObjOrEmpty(call.cloud, "decks"), id), p))

C3_Witness ==
    /\ IsCall("mergeAll")
    /\ Has(call.local, "decks") /\ Has(call.cloud, "decks")
    /\ \E id \in Keys(call.local.decks) \cap Keys(call.cloud.decks) :
          /\ CounterOf(call.local.decks[id], "points") < CounterOf(call.cloud.decks[id], "points")
          /\ CounterOf(call.local.decks[id], "streak") > CounterOf(call.cloud.decks[id], "streak")
          /\ call.result.decks[id].points = call.cloud.decks[id].points
          /\ call.result.decks[id].streak = call.local.decks[id].streak

\* C4: the merged achievements hold every identifier of either side, no other
\* identifier, and none twice (each side's achievements being a set: an array
\* without repeats).
C4_AchievementsAreUnion ==
    /\ IsCall("mergeGlobal") =>
          /\ AchSetOf(call.result) = AchSetOf(call.local) \cup AchSetOf(call.cloud)
          /\ NoRepeats(ArrOrEmpty(call.result, "achievements"))
          /\ Len(ArrOrEmpty(call.result, "achievements"))
                = Cardinality(AchSetOf(call.local) \cup AchSetOf(call.cloud))
    /\ IsCall("mergeAll") =>
          /\ AchSetOf(call.result.global)
                = AchSetOf(GlobalOf(call.local)) \cup AchSetOf(GlobalOf(call.cloud))
          /\ NoRepeats(ArrOrEmpty(call.result.global, "achievements"))

C4_Witness ==
    /\ IsCall("mergeGlobal")
    /\ call.local # Undefined /\ call.cloud # Undefined
    /\ Has(call.local, "achievements") /\ Has(call.cloud, "achievements")
    /\ call.local.achievements = <<"x", "y">>
    /\ call.cloud.achievements = <<"y", "z">>
    /\ call.result.achievements = <<"x", "y", "z">>

\* C5: the merged readingHistory has at most 50 entries and no two of them are
\* structurally equal.
C5_HistoryCappedNoDuplicates ==
    IsCall("mergeAll") =>
        LET h == call.result.readingHistory
        IN  /\ Len(h) <= HISTORY_CAP
            /\ \A i, j \in 1..Len(h) : StructEq(h[i], h[j]) => i = j

\* C6: the deck identifiers of mergeAll(local, cloud).decks are those of
\* local.decks and of cloud.decks, and a deck on one side only is that side's
\* DeckState unchanged.
C6_DeckIdsAreUnion ==
    IsCall("mergeAll") =>
        LET ld == ObjOrEmpty(call.local, "decks")
            cd == ObjOrEmpty(call.cloud, "decks")
        IN  /\ Keys(call.result.decks) = Keys(ld) \cup Keys(cd)
            /\ \A id \in Keys(ld) \ Keys(cd) : call.result.decks[id] = ld[id]
            /\ \A id \in Keys(cd) \ Keys(ld) : call.result.decks[id] = cd[id]

C6_Witness ==
    /\ IsCall("mergeAll")
    /\ Has(call.local, "decks") /\ Has(call.cloud, "decks")
    /\ Keys(call.local.decks) = {"d1"} /\ Keys(call.cloud.decks) = {"d2"}
    /\ ~Has(call.local.decks["d1"], "points")
    /\ Has(call.cloud.decks["d2"], "state")
    /\ call.result.decks = [id \in DeckIds |->
                               IF id = "d1" THEN call.local.decks[id] ELSE call.cloud.decks[id]]

\* C7: merging a result with itself gives the result again, for each of the
\* three merges.
C7_MergeIdempotent ==
    /\ IsCall("mergeWordStates") => mergeWordStates(call.result, call.result) = call.result
    /\ IsCall("mergeGlobal")     => mergeGlobal(call.result, call.result) = call.result
    /\ IsCall("mergeAll")        => mergeAll(call.result, call.result) = call.result

(* ------------------------------------------------------------------ *)
(* Properties of the handler (checked under Spec)                      *)
(* ------------------------------------------------------------------ *)

\* C8, first part: no invocation's read or write of sync_data waits for
\* another invocation.
C8_NothingSerializes ==
    \A r \in Reqs :
        /\ req[r].pc = "merge_read"  => ENABLED MergeRead(r)
        /\ req[r].pc = "merge_write" => ENABLED MergeWrite(r)

\* C8, second part: when a merge writes after another merge that read the same
\* version of the row, the row becomes its own merge of its local snapshot and
\* the snapshot it read, and holds nothing else of the row it replaces.
C8_LostUpdateStep ==
    \A r \in Reqs :
        (MergeWrite(r)
            /\ hist[req[r].username].lastKind = "merge"
            /\ hist[req[r].username].lastReadAt = req[r].readAt)
        => LET u == req[r].username
           IN  /\ store'[u].data = JSONstringify(mergeAll(req[r].data, req[r].cloudData))
               /\ \A x \in RowContents(store[u]) :
                     x \notin Contents(req[r].data) \cup Contents(req[r].cloudData)
                        => x \notin RowContents(store'[u])

\* C8: two merges of one principal can read the same row before either writes;
\* the later write replaces the earlier result and drops what only the earlier
\* writer's local snapshot held; nothing serializes the invocations.
C8_LostUpdate == []C8_NothingSerializes /\ [][C8_LostUpdateStep]_vars

C8_Witness ==
    \E u \in Usernames :
        /\ hist[u].raced
        /\ version[u] = hist[u].lastReadAt + 2
        /\ <<"achievement", "z", "">> \in RowContents(store[u])
        /\ \E x \in hist[u].lost : x[1] = "word" /\ x \notin RowContents(store[u])
        /\ \E x \in hist[u].lost : x[1] = "achievement" /\ x \notin RowContents(store[u])

\* C9: while every write of a row was a merge that no other write came between
\* its read and its write, the row holds every deck identifier, word key and
\* achievement of the row at the start and of every snapshot merged into it.
C9_SequentialMergesLoseNothing ==
    \A u \in Usernames :
        hist[u].writes = "clean" => hist[u].owed \subseteq RowContents(store[u])

C9_Witness ==
    \E u \in Usernames :
        /\ hist[u].writes = "clean"
        /\ version[u] = 2
        /\ {<<"achievement", "x", "">>, <<"achievement", "y", "">>, <<"achievement", "z", "">>,
            <<"word", "d1", "cat">>, <<"word", "d2", "dog">>, <<"word", "d2", "cat">>}
              \subseteq RowContents(store[u])

\* the counters and achievements of row `new` are no smaller than those of row `old`
NotBackwards(old, new) ==
    old # Null =>
        LET og == GlobalOf(JSONparse(old.data))
            ng == GlobalOf(JSONparse(new.data))
            od == ObjOrEmpty(JSONparse(old.data), "decks")
            nd == ObjOrEmpty(JSONparse(new.data), "decks")
        IN  /\ \A p \in {"dailyStreak", "totalReviewed", "lastStudyDate"} :
                  CounterOf(ng, p) >= CounterOf(og, p)
            /\ AchSetOf(og) \subseteq AchSetOf(ng)
            /\ \A id \in Keys(od) : \A p \in {"points", "streak"} :
                  CounterOf(DeckOf(nd, id), p) >= CounterOf(od[id], p)

\* C10 as claimed: in an execution whose writes are all merges, every write of
\* a merge leaves the counters, lastStudyDate and achievements no smaller than
\* in the row it replaces, whether or not merges overlap.
C10_NeverBackwards ==
    [][\A r \in Reqs :
          (MergeWrite(r) /\ hist[req[r].username].writes # "any")
          => NotBackwards(store[req[r].username], store'[req[r].username])]_vars

\* C10 amended: a write of a merge that no other write of the row came between
\* its read and its write leaves the counters, lastStudyDate and achievements
\* no smaller than in the row it replaces.
C10_FreshMergeNeverBackwards ==
    [][\A r \in Reqs :
          (MergeWrite(r) /\ req[r].readAt = version[req[r].username])
          => NotBackwards(store[req[r].username], store'[req[r].username])]_vars

C10_Witness ==
    \E u \in Usernames :
        /\ hist[u].writes = "clean" /\ hist[u].lastKind = "merge"
        /\ <<"achievement", "z", "">> \in hist[u].owed
        /\ CounterOf(GlobalOf(JSONparse(store[u].data)), "dailyStreak") = 2
        /\ CounterOf(GlobalOf(JSONparse(store[u].data)), "lastStudyDate") = 2
        /\ CounterOf(DeckOf(JSONparse(store[u].data).decks, "d2"), "points") = 2

(* ------------------------------------------------------------------ *)
(* Properties of single invocations (checked under SpecIO and Spec)    *)
(* ------------------------------------------------------------------ *)
Done(r) == req[r].pc = "done"

\* invocation r, awaiting a statement of a push or a merge, responds in this step
PushOrMergeResponds(r) ==
    /\ req[r].pc \in Awaiting
    /\ req[r].action \in {"push", "merge"}
    /\ req'[r].pc = "done"

\* C11, in every state: an invocation that has not responded has written
\* nothing, and one that has responded has written at most once, and only when
\* its response is a success.
C11_WrittenOnlyOnSuccess ==
    \A r \in Reqs :
        /\ req[r].pc \in Awaiting => req[r].wrote = 0
        /\ Done(r) => /\ req[r].wrote \in {0, 1}
                      /\ req[r].wrote = 1 => req[r].status = 200

\* C11, in every step in which a push or a merge invocation responds: either
\* the response is a success and the step is the one write of the principal's
\* row by that invocation, or the response is a failure and no row has changed.
C11_RespondStep ==
    /\ \A r \in Reqs :
          PushOrMergeResponds(r) =>
              LET u == req[r].username
              IN  \/ /\ req'[r].status = 200 /\ req'[r].wrote = 1
                     /\ version'[u] = version[u] + 1
                     /\ \A v \in Usernames \ {u} : store'[v] = store[v]
                  \/ /\ req'[r].status # 200 /\ req'[r].wrote = 0
                     /\ store' = store
    /\ \A r \in Reqs :
          (req[r] = Idle /\ req'[r].pc = "done")
              => req'[r].status # 200 /\ req'[r].wrote = 0 /\ store' = store

\* C11: every push and every merge invocation either responds with success
\* after writing the principal's record exactly once, or responds with a
\* failure after writing nothing.
C11_WriteOnceOrFail == []C11_WrittenOnlyOnSuccess /\ [][C11_RespondStep]_vars

\* a merge whose write was rejected: it responded 500 and no row was written
C11_Witness ==
    /\ db = "flaky"
    /\ \E r \in Reqs :
          /\ Done(r) /\ req[r].status = 500 /\ req[r].wrote = 0
          /\ req[r].io = <<"verifyToken", "SELECT users", "SELECT sync_data", "REPLACE sync_data">>
    /\ \E r \in Reqs : Done(r) /\ req[r].status = 200 /\ req[r].wrote = 1
    /\ version["alice"] = 1

\* a body that fails validation: an action that is none of push, pull, merge,
\* or a push or merge whose data is missing, null or not an object
Invalid(body) ==
    \/ body.action \notin {"push", "pull", "merge"}
    \/ body.action \in {"push", "merge"} /\ BadData(body.data)

\* C12: a POST request that fails validation is rejected with the validation
\* failure (400) in the step that receives it, before verifyToken or any
\* statement on the database is called, whatever its token is (stated for a
\* database that is up).
C12_ValidationBeforeIO ==
    [][\A r \in Reqs, request \in AllRequests :
          (/\ db = "up"
           /\ request[1] = "POST" /\ Invalid(request[2])
           /\ Receive(r, request[1], request[2]))
          => /\ req'[r].pc = "done"
             /\ req'[r].status = 400
             /\ req'[r].io = <<>>]_vars

\* tokens that must be refused: missing, malformed (no dot, and fewer than
\* three parts or a name of fewer than five characters), wrongly signed (with
\* a signature of any length), or expired
Refused(token, now) ==
    \/ token = NoToken
    \/ Has(token, "parts") /\ (token.parts < 3 \/ token.name \in {"", "bob"})
    \/ Has(token, "sig") /\ token.sig \in {"bad", "short"}
    \/ Has(token, "sig") /\ token.exp # 0 /\ token.exp < now

\* the statements on sync_data among the calls of an invocation
TouchesSnapshot(io) == \E i \in 1..Len(io) : io[i] \in {"SELECT sync_data", "REPLACE sync_data"}

\* C13: with the database up, and for every action, a request whose token is
\* missing, malformed, wrongly signed (with a signature of any length) or
\* expired, or whose token names a principal without an account, is answered
\* 401, and it has neither read nor written sync_data.
C13_Unauthorized ==
    [][db = "up" =>
          /\ \A r \in Reqs, request \in AllRequests :
                (/\ request[1] = "POST"
                 /\ Refused(request[2].token, clock)
                 /\ Receive(r, request[1], request[2]))
                => /\ req'[r].pc = "done" /\ req'[r].status = 401
                   /\ ~TouchesSnapshot(req'[r].io)
                   /\ store' = store
          /\ \A r \in Reqs :
                (req[r].pc = "user_check" /\ req[r].username \notin users /\ req'[r] # req[r])
                => /\ req'[r].pc = "done" /\ req'[r].status = 401
                   /\ ~TouchesSnapshot(req'[r].io)
                   /\ store' = store]_vars

\* two snapshots are the same value: their properties are equal, history
\* items being compared structurally
SameSnapshot(a, b) ==
    /\ DOMAIN a = DOMAIN b
    /\ \A p \in DOMAIN a :
          IF p = "readingHistory"
          THEN /\ Len(a[p]) = Len(b[p])
               /\ \A i \in 1..Len(a[p]) : StructEq(a[p][i], b[p][i])
          ELSE a[p] = b[p]

\* C14: a pull that reads the row of principal p when the last write of the
\* row was a successful push(p, s) responds with success and with data s,
\* whatever the row held before the push.
C14_PullReturnsPushed ==
    [][\A r \in Reqs :
          (PullRead(r) /\ hist[req[r].username].lastKind = "push")
          => /\ req'[r].status = 200
             /\ Has(req'[r].body, "data")
             /\ SameSnapshot(req'[r].body.data, hist[req[r].username].pushed)]_vars

\* a pull has returned the snapshot with the history <<-0>> that was pushed
C14_Witness ==
    \E u \in Usernames, r \in Reqs :
        /\ hist[u].lastKind = "push"
        /\ hist[u].pushed # Undefined
        /\ ArrOrEmpty(hist[u].pushed, "readingHistory") = <<NegZero>>
        /\ Done(r) /\ req[r].status = 200 /\ Has(req[r].body, "data")
        /\ req[r].body.data # Null
        /\ SameSnapshot(req[r].body.data, hist[u].pushed)
        /\ req[r].io = <<"verifyToken", "SELECT users", "SELECT sync_data">>

\* the snapshot stored in a row, or the empty default snapshot when there is no row
StoredOrDefault(record) == IF record = Null THEN EmptyObj ELSE JSONparse(record.data)

\* C15: the snapshot a merge computes when its read arrives is
\* mergeAll(localSnapshot, S), S being the snapshot of the row it reads or the
\* empty default when there is no row; its write stores that snapshot, creating
\* the row when there was none, and its response is a success whose data is
\* the snapshot stored.
C15_MergeReturnsWritten ==
    [][\A r \in Reqs :
          /\ MergeRead(r) =>
                req'[r].merged = mergeAll(req[r].data, StoredOrDefault(store[req[r].username]))
          /\ MergeWrite(r) =>
                LET u == req[r].username
                IN  /\ req'[r].status = 200
                    /\ req'[r].body.data = req[r].merged
                    /\ store'[u] # Null
                    /\ SameSnapshot(JSONparse(store'[u].data), req'[r].body.data)]_vars

\* a merge for a principal without a row has created the row and returned it
C15_Witness ==
    \E u \in Usernames, r \in Reqs :
        /\ version[u] = 1 /\ hist[u].lastKind = "merge" /\ hist[u].writes = "clean"
        /\ <<"achievement", "z", "">> \notin hist[u].owed
        /\ store[u] # Null
        /\ Done(r) /\ req[r].status = 200 /\ Has(req[r].body, "data")
        /\ req[r].body.message = "Merged successfully."
        /\ SameSnapshot(JSONparse(store[u].data), req[r].body.data)
        /\ ArrOrEmpty(req[r].body.data, "readingHistory") = <<NegZero>>

\* C16: an invocation of pull that awaits the row of an authenticated principal
\* with an account and no row responds, when the read arrives, with success and
\* data null; it fails only when the read itself is rejected by the database.
C16_PullWithoutSnapshot ==
    [][\A r \in Reqs :
          (/\ req[r].pc = "pull_read"
           /\ store[req[r].username] = Null
           /\ req'[r] # req[r])
          => \/ /\ req'[r].status = 200
                /\ req'[r].body.ok
                /\ req'[r].body.data = Null
             \/ /\ db # "up"
                /\ req'[r].status = 500
                /\ ~PullRead(r)]_vars

C16_Witness ==
    \E r \in Reqs :
        /\ Done(r) /\ req[r].status = 200 /\ Has(req[r].body, "data")
        /\ req[r].body.data = Null
        /\ req[r].io = <<"verifyToken", "SELECT users", "SELECT sync_data">>
        /\ store["alice"] = Null /\ version["alice"] = 0

\* the response to a failure err of the database: 500 with one of the two
\* fixed messages and nothing of err
StorageFailure(body, err) ==
    /\ DOMAIN body = {"ok", "message"}
    /\ ~body.ok
    /\ body.message = IF err = UnprovisionedError
                      THEN "Backend database not configured. Contact the administrator."
                      ELSE "Internal server error."
    /\ \A i \in 1..Len(err.message) : body.message # err.message[i]

\* C17: when a statement of a push, pull or merge is rejected by the database,
\* the response is 500 with the 'not configured' message exactly when the
\* error is the one of the unprovisioned backend and with the generic message
\* otherwise, nothing of the error is in the response, and no row has changed.
\* The same holds when the database fails under verifyToken.
C17_StorageFailure ==
    [][/\ \A r \in Reqs, err \in AllErrors :
             DbThrow(r, err)
             => /\ req'[r].status = 500
                /\ StorageFailure(req'[r].body, err)
                /\ store' = store
       /\ \A r \in Reqs :
             (req[r] = Idle /\ req'[r].pc = "done" /\ req'[r].status = 500 /\ db # "up")
             => /\ \E err \in DbErrors : StorageFailure(req'[r].body, err)
                /\ store' = store]_vars

\* with the backend unprovisioned, the query on users was rejected
C17_Witness ==
    /\ db = "unprovisioned"
    /\ \E r \in Reqs :
          /\ Done(r) /\ req[r].status = 500
          /\ req[r].body.message = "Backend database not configured. Contact the administrator."
          /\ req[r].io = <<"verifyToken", "SELECT users">>

(* ------------------------------------------------------------------ *)
(* Properties of the merged reading history (checked under SpecMerge)  *)
(* ------------------------------------------------------------------ *)

\* the items of a sequence, each kept at its first occurrence only, two items
\* being the same when they are structurally equal
DedupStruct(items) ==
    LET first(i) == \A j \in 1..(i - 1) : ~StructEq(items[j], items[i])
        kept     == SelectSeq([i \in 1..Len(items) |-> i], first)
    IN  [k \in 1..Len(kept) |-> items[kept[k]]]

\* C18: the merged readingHistory is the last 50 entries of the items of local
\* followed by the items of cloud with each item kept at its first occurrence,
\* in that order; when that sequence has at most 50 items, every item of
\* either input is in the result.
C18_HistoryIsDedupTail ==
    IsCall("mergeAll") =>
        LET all   == ArrOrEmpty(call.local, "readingHistory")
                        \o ArrOrEmpty(call.cloud, "readingHistory")
            dedup == DedupStruct(all)
            h     == call.result.readingHistory
        IN  /\ h = SliceLast(dedup, HISTORY_CAP)
            /\ Len(dedup) <= HISTORY_CAP =>
                  \A i \in 1..Len(all) : \E k \in 1..Len(h) : StructEq(h[k], all[i])

\* C19: when the local and the cloud history have at most 50 entries each, the
\* last entry of the local history is in the merged readingHistory.
C19_LocalLastKept ==
    IsCall("mergeAll") =>
        LET lh == ArrOrEmpty(call.local, "readingHistory")
            ch == ArrOrEmpty(call.cloud, "readingHistory")
            h  == call.result.readingHistory
        IN  (Len(lh) <= HISTORY_CAP /\ Len(ch) <= HISTORY_CAP /\ lh # <<>>)
            => \E k \in 1..Len(h) : StructEq(h[k], lh[Len(lh)])

(* ------------------------------------------------------------------ *)
(* Convergence of sequential merges (checked under SpecTurns)          *)
(* ------------------------------------------------------------------ *)

\* the row of the principal and both devices hold the same snapshot
C20_Stable ==
    /\ store["alice"] # Null
    /\ \A d \in Devices :
          SameSnapshot(devices.snap[d], JSONparse(store["alice"].data))

\* C20: when two devices take turns invoking merge without overlap, each
\* adopting the snapshot returned, then from some merge on the stored snapshot
\* no longer changes and both devices hold it: when the devices have made all
\* their MaxTurns merges, both hold the stored snapshot.
C20_TurnsConverge ==
    (devices.turn # "none" /\ devices.merges = MaxTurns) => C20_Stable

(* ------------------------------------------------------------------ *)
(* Frame of pull, validation and the absent-side rule                  *)
(* ------------------------------------------------------------------ *)

\* invocation r takes a step, and it is an invocation of action a by a
\* principal whose token verified
StepOf(r, a) ==
    /\ req'[r] # req[r]
    /\ IF req[r] = Idle
       THEN Has(req'[r], "action") /\ req'[r].action = a
       ELSE Has(req[r], "action") /\ req[r].action = a

\* C21: no step of a pull, from its receipt to its response, changes the
\* sync_data table: the snapshot and updated_at of every principal are after
\* the step what they were before it, whether or not the principal has a row,
\* and a pull that has responded has made no write.
C21_PullNeverWrites ==
    [][\A r \in Reqs :
          StepOf(r, "pull")
          => /\ store' = store
             /\ version' = version
             /\ req'[r].pc = "done" =>
                   (req'[r].wrote = 0 /\ \A i \in 1..Len(req'[r].io) : req'[r].io[i] # "REPLACE sync_data")]_vars

\* a pull has returned the stored snapshot of a principal, and the row is the
\* one the cold start found
C21_Witness ==
    \E r \in Reqs :
        /\ Done(r) /\ req[r].status = 200 /\ Has(req[r].body, "data")
        /\ req[r].body.data # Null /\ ~Has(req[r].body, "message")
        /\ store["alice"] = [data |-> JSONstringify(StoredBefore), updated_at |-> 0]
        /\ version["alice"] = 0
        /\ SameSnapshot(req[r].body.data, StoredBefore)

\* the request of invocation r, authenticated by UserCheck, fails validation:
\* its action is none of push, pull, merge, or it is a push or merge whose
\* data is missing, null or a scalar
FailsValidation(r) ==
    \/ req[r].action \notin {"push", "pull", "merge"}
    \/ req[r].action \in {"push", "merge"} /\ req[r].data \in {Undefined, Null, Scalar}

\* C22: when the users row of an invocation arrives and its username has an
\* account, a request with an unsupported action, and a push or merge whose
\* data is missing, null or not an object, is answered 400 with ok false, the
\* sync_data table is unchanged and the invocation has issued no statement on
\* it; a request whose method is not POST is answered 405 having called
\* neither verifyToken nor the database.
C22_ValidationFailure ==
    [][\A r \in Reqs :
          /\ (/\ req[r].pc = "user_check"
              /\ req[r].username \in users
              /\ FailsValidation(r)
              /\ UserCheck(r))
             => /\ req'[r].pc = "done"
                /\ req'[r].status = 400
                /\ ~req'[r].body.ok
                /\ req'[r].wrote = 0
                /\ ~TouchesSnapshot(req'[r].io)
                /\ store' = store
          /\ (req[r] = Idle /\ req'[r] # Idle)
             => \A request \in AllRequests :
                   (request[1] # "POST" /\ Receive(r, request[1], request[2]))
                   => /\ req'[r].pc = "done"
                      /\ req'[r].status = 405
                      /\ req'[r].io = <<>>
                      /\ store' = store]_vars

\* a push or merge without an object as data was answered 400 after the
\* account lookup, and a request with another method 405
C22_Witness ==
    \E r, q \in Reqs :
        /\ Done(r) /\ req[r].status = 400
        /\ req[r].body.message = "Missing data payload."
        /\ req[r].io = <<"verifyToken", "SELECT users">>
        /\ Done(q) /\ req[q].status = 405 /\ req[q].io = <<>>
        /\ version = [u \in Usernames |-> 0]

\* C23: mergeWordStates and mergeGlobal called with one side absent (undefined
\* or null) and the other present return the present side as it is, with the
\* same properties and values, and called with both sides absent return {}.
C23_AbsentSide ==
    (IsCall("mergeWordStates") \/ IsCall("mergeGlobal")) =>
        /\ (Absent(call.local) /\ ~Absent(call.cloud)) => call.result = call.cloud
        /\ (~Absent(call.local) /\ Absent(call.cloud)) => call.result = call.local
        /\ (Absent(call.local) /\ Absent(call.cloud)) => call.result = EmptyObj

\* mergeGlobal has returned a cloud side that lacks counters as it is, the
\* local side being absent
C23_Witness ==
    /\ IsCall("mergeGlobal")
    /\ call.local = Undefined
    /\ call.cloud = [achievements |-> <<"y", "x">>]
    /\ call.result = call.cloud
    /\ ~Has(call.result, "dailyStreak")

(* ------------------------------------------------------------------ *)
(* lastStudyDate, autoPlay and preferredDeck                           *)
(* ------------------------------------------------------------------ *)

\* objects a and b have the same value of property p, or both lack it
SameProp(a, b, p) == (Has(a, p) <=> Has(b, p)) /\ (Has(a, p) /\ Has(b, p) => a[p] = b[p])

\* the merged lastStudyDate of two present GlobalStates: the greater date, ''
\* and a missing date being the smallest; the local side's value on a tie
GreaterDateLocalOnTie(local, cloud, merged) ==
    LET l == NumOr0(local, "lastStudyDate")
        c == NumOr0(cloud, "lastStudyDate")
    IN  /\ NumOr0(merged, "lastStudyDate") = Max(l, c)
        /\ l >= c => SameProp(merged, local, "lastStudyDate")
        /\ l < c  => SameProp(merged, cloud, "lastStudyDate")

\* C24: for local and cloud GlobalStates that are both present, the merged
\* lastStudyDate is the greater of the two dates, an empty or missing date
\* being smaller than every date, and the local value when they are equal;
\* in mergeGlobal and in the global of mergeAll.
C24_GreaterDate ==
    /\ (IsCall("mergeGlobal") /\ ~Absent(call.local) /\ ~Absent(call.cloud)) =>
          GreaterDateLocalOnTie(call.local, call.cloud, call.result)
    /\ (IsCall("mergeAll") /\ Has(call.local, "global") /\ Has(call.cloud, "global")) =>
          GreaterDateLocalOnTie(call.local.global, call.cloud.global, call.result.global)

\* the local date is '' and the cloud has none: a tie, and the merged date is ''
C24_Witness ==
    /\ IsCall("mergeGlobal")
    /\ ~Absent(call.local) /\ ~Absent(call.cloud)
    /\ Has(call.local, "lastStudyDate") /\ call.local.lastStudyDate = 0
    /\ ~Has(call.cloud, "lastStudyDate")
    /\ Has(call.result, "lastStudyDate") /\ call.result.lastStudyDate = 0

\* the merged autoPlay of two present DeckStates: the local side's when it
\* has one, the cloud side's (or none) when it has none
LocalAutoPlayFirst(local, cloud, merged) ==
    IF Has(local, "autoPlay")
    THEN Has(merged, "autoPlay") /\ merged.autoPlay = local.autoPlay
    ELSE SameProp(merged, cloud, "autoPlay")

\* C25: for a deck present on both sides the merged autoPlay is the local
\* value whenever the local DeckState has an autoPlay, false included, and the
\* cloud value only when the local DeckState has none; in mergeWordStates and
\* in each deck of mergeAll.
C25_AutoPlayLocalFirst ==
    /\ (IsCall("mergeWordStates") /\ ~Absent(call.local) /\ ~Absent(call.cloud)) =>
          LocalAutoPlayFirst(call.local, call.cloud, call.result)
    /\ IsCall("mergeAll") =>
          \A id \in Keys(ObjOrEmpty(call.local, "decks")) \cap Keys(ObjOrEmpty(call.cloud, "decks")) :
              LocalAutoPlayFirst(call.local.decks[id], call.cloud.decks[id], call.result.decks[id])

\* a deck of mergeAll with autoPlay false on the local side and true on the
\* cloud side has autoPlay false
C25_Witness ==
    /\ IsCall("mergeAll")
    /\ \E id \in Keys(ObjOrEmpty(call.local, "decks")) \cap Keys(ObjOrEmpty(call.cloud, "decks")) :
          /\ Has(call.local.decks[id], "autoPlay") /\ ~call.local.decks[id].autoPlay
          /\ Has(call.cloud.decks[id], "autoPlay") /\ call.cloud.decks[id].autoPlay
          /\ Has(call.result.decks[id], "autoPlay") /\ ~call.result.decks[id].autoPlay

\* C26: the preferredDeck of mergeAll(local, cloud) is local.preferredDeck
\* when that is a non-empty string, otherwise cloud.preferredDeck when the
\* cloud snapshot has one, otherwise the empty string.
C26_PreferredDeckLocalFirst ==
    IsCall("mergeAll") =>
        call.result.preferredDeck =
            IF Has(call.local, "preferredDeck") /\ call.local.preferredDeck # ""
            THEN call.local.preferredDeck
            ELSE IF Has(call.cloud, "preferredDeck") THEN call.cloud.preferredDeck
            ELSE ""

\* both sides name a deck, different ones, and the merged one is the local's
C26_Witness ==
    /\ IsCall("mergeAll")
    /\ Has(call.local, "preferredDeck") /\ call.local.preferredDeck = "d1"
    /\ Has(call.cloud, "preferredDeck") /\ call.cloud.preferredDeck = "d2"
    /\ call.result.preferredDeck = "d1"

(* ------------------------------------------------------------------ *)
(* Isolation of principals, accounts and timestamps (checked under     *)
(* Spec and SpecAccounts)                                              *)
(* ------------------------------------------------------------------ *)

\* what a step of an invocation for principal p does, in terms of its own
\* locals (before, after) and the row of p (row, row') alone
OwnOutcome(before, row, rowAfter, after) ==
    IF before.pc = "pull_read"
    THEN /\ rowAfter = row
         /\ after.status = 200
         /\ after.body.data = (IF row = Null THEN Null ELSE JSONparse(row.data))
         /\ row # Null => after.body.updatedAt = row.updated_at
    ELSE IF before.pc = "merge_read"
    THEN /\ rowAfter = row
         /\ after.merged = mergeAll(before.data, StoredOrDefault(row))
    ELSE IF before.pc = "merge_write"
    THEN /\ rowAfter = [data |-> JSONstringify(before.merged), updated_at |-> before.now]
         /\ after.body.data = before.merged
         /\ after.body.updatedAt = before.now
    ELSE IF before.pc = "push_write"
    THEN /\ rowAfter = [data |-> JSONstringify(before.data), updated_at |-> before.now]
         /\ after.body.updatedAt = before.now
    ELSE rowAfter = row

\* C27: a step of an invocation whose token verified for principal p leaves
\* the row of every other principal q as it was, and what it returns and
\* stores is given by the request's own data and the row of p: a pull returns
\* p's row, a merge merges the request's data with p's row and stores and
\* returns the result, a push stores the request's data; the receipt of a
\* request changes no row.
C27_PrincipalIsolation ==
    [][\A r \in Reqs :
          /\ (req[r] = Idle /\ req'[r] # Idle) => store' = store
          /\ (req[r].pc \in Awaiting /\ req'[r] # req[r]) =>
                LET p == req[r].username
                IN  /\ \A q \in Usernames \ {p} : store'[q] = store[q]
                    /\ p \in Usernames =>
                          OwnOutcome(req[r], store[p], store'[p], req'[r])]_vars

\* alice's row was merged into while bob, who has no row, pulled and got null
C27_Witness ==
    /\ store["bob"] = Null /\ version["bob"] = 0
    /\ version["alice"] = 1 /\ hist["alice"].lastKind = "merge"
    /\ <<"achievement", "z", "">> \in hist["alice"].owed
    /\ \E r, q \in Reqs :
          /\ Done(r) /\ req[r].status = 200 /\ Has(req[r].body, "data")
          /\ req[r].body.data = Null
          /\ Done(q) /\ req[q].status = 200 /\ req[q].wrote = 1

\* C28: in every reachable state every username that has a row in sync_data
\* has a row in users, whatever the interleaving of sync requests and
\* registrations: a push or merge whose account lookup found no user has
\* written nothing.
C28_RowsHaveAccounts ==
    \A u \in Usernames : store[u] # Null => u \in users

\* a request for alice was refused for want of an account, and after she
\* registered a write stored her row
C28_Witness ==
    /\ "alice" \in users
    /\ store["alice"] # Null /\ version["alice"] = 1
    /\ \E r \in Reqs :
          /\ Done(r) /\ req[r].status = 401
          /\ req[r].body.message = "User not found."

\* C29: for each principal the updated_at of the row never decreases from one
\* write of the row to the next, the clock never going backwards, also when
\* push and merge invocations for the principal overlap.
C29_TimestampNeverDecreases ==
    [][\A u \in Usernames :
          (version'[u] # version[u] /\ store[u] # Null)
          => store'[u].updated_at >= store[u].updated_at]_vars

(* ------------------------------------------------------------------ *)
(* The rate limit of the auth endpoint (checked under SpecLimiter)     *)
(* ------------------------------------------------------------------ *)
RECURSIVE SumOver(_, _)
SumOver(S, f) ==
    IF S = {} THEN 0
    ELSE LET x == CHOOSE y \in S : TRUE IN f[x] + SumOver(S \ {x}, f)

\* the number of hits admitted for address ip that are less than RATE_WINDOW
\* old at time now
AdmittedWithin(ip, now) ==
    SumOver({t \in Times : t <= now /\ now - t < RATE_WINDOW}, limiter.admittedAt[ip])

\* at every time, at most RATE_MAX hits of one address have been admitted
\* within the RATE_WINDOW that ends with it (a window that holds admitted hits
\* is within the one that ends with the last of them)
C30_AtMostMaxPerWindow ==
    \A ip \in ClientKeys : AdmittedWithin(ip, clock) <= RATE_MAX

\* a POST is answered 429 exactly when RATE_MAX admitted hits of its address
\* are less than RATE_WINDOW old, a request with another method never; the
\* cleanup changes the answer to no request, now or later
C30_Step ==
    /\ clock' = clock =>
          \A request \in AuthRequests :
              AuthReceive(request) =>
                  IF request.method = "POST"
                  THEN (limiter'.status = 429)
                       <=> (AdmittedWithin(ClientKey(request.xff, request.remote), clock) >= RATE_MAX)
                  ELSE limiter'.status = 405 /\ limiter'.attempts = limiter.attempts
    /\ (clock' = clock /\ limiter'.status = limiter.status /\ Cleanup) =>
          \A ip \in ClientKeys, now \in Times :
              now >= clock =>
                  isRateLimited(limiter'.attempts, ip, now).limited
                      = isRateLimited(limiter.attempts, ip, now).limited

====
